---- MODULE Spec2Model ----
(***************************************************************************)
(* Model of routes/util/LogReader.js: the HandBrake activity-log replay    *)
(* that folds every log line into the status record `this.status` and      *)
(* derives the ETA when the line stream closes.                            *)
(*                                                                         *)
(* A log line is a record: `text` is the raw line (the code slices it),    *)
(* the other fields are what the external helpers of ReaderUtil / HBStatus *)
(* report about the line (status pattern, encode-start marker, indicator   *)
(* patterns, encode name).  A string the code cuts characters from (a      *)
(* line, startTime, endTime) is the sequence of its UTF-16 code units; a   *)
(* string it only passes on (labels, the encode name, eta) is a string.    *)
(***************************************************************************)
EXTENDS Integers, Sequences, FiniteSets, TLC

\* Longest log a single request replays.
MaxLen == 4
\* Longest log of each of two overlapping requests.
MaxConcLen == 2
\* Longest log of each of two requests issued one after the other.
MaxSeqLen == 2

\* ------------------------------------------------------------------------
\* HBStatus.js (not part of the sources at hand): status symbols and labels
\* ------------------------------------------------------------------------
SCANNING == "SCANNING"
SCAN_COMPLETE == "SCAN_COMPLETE"
RIPPING == "RIPPING"
RIPPING_SUB_SCAN == "RIPPING_SUB_SCAN"
RIPPING_ENCODING == "RIPPING_ENCODING"
QUEUE_COMPLETE == "QUEUE_COMPLETE"

STATUS ==
  {SCANNING, SCAN_COMPLETE, RIPPING, RIPPING_SUB_SCAN, RIPPING_ENCODING, QUEUE_COMPLETE}

REVERSE_STATUS_LOOKUP(s) == "label of " \o s

\* what a status pattern says about a line that carries none
NoMatch == "NONE"

\* a property of an object that has not been assigned yet
Undefined == "undefined"

\* ------------------------------------------------------------------------
\* String helpers of the JavaScript runtime
\* ------------------------------------------------------------------------
\* the characters U+0023..U+005B and U+0061..U+007E
AsciiFrom35 == "#$%&'()*+,-./0123456789:;<=>?@ABCDEFGHIJKLMNOPQRSTUVWXYZ["
AsciiFrom97 == "abcdefghijklmnopqrstuvwxyz{|}~"

\* the position of the character c in the string str
IndexIn(str, c) == CHOOSE k \in 1..Len(str) : SubSeq(str, k, k) = c

\* the code unit of a printable ASCII character (other than the double quote,
\* the backslash and the backtick)
CodeUnit(c) ==
  CASE c = " " -> 32
    [] c = "!" -> 33
    [] c = "]" -> 93
    [] c = "^" -> 94
    [] c = "_" -> 95
    [] \E k \in 1..Len(AsciiFrom35) : SubSeq(AsciiFrom35, k, k) = c -> 34 + IndexIn(AsciiFrom35, c)
    [] OTHER -> 96 + IndexIn(AsciiFrom97, c)

\* the code units of a string literal of such characters
UTF16(str) == [i \in 1..Len(str) |-> CodeUnit(SubSeq(str, i, i))]

\* String.prototype.slice(from, to) for 0 <= from <= to (0-based, to excluded)
slice(s, from, to) ==
  LET t == IF to > Len(s) THEN Len(s) ELSE to
  IN IF from >= t THEN <<>> ELSE SubSeq(s, from + 1, t)

\* String.prototype.slice(-2)
sliceLast2(s) == IF Len(s) <= 2 THEN s ELSE SubSeq(s, Len(s) - 1, Len(s))

\* the WhiteSpace and LineTerminator code points String.prototype.trim() strips:
\* TAB, LF, VT, FF, CR, SPACE, NBSP, U+1680, U+2000..U+200A, U+2028, U+2029,
\* U+202F, U+205F, U+3000, U+FEFF
WhiteSpace ==
  {9, 10, 11, 12, 13, 32, 160, 5760, 8232, 8233, 8239, 8287, 12288, 65279}
    \cup (8192..8202)

RECURSIVE trimStart(_)
trimStart(s) ==
  IF Len(s) = 0 THEN <<>>
  ELSE IF s[1] \in WhiteSpace THEN trimStart(Tail(s))
  ELSE s

RECURSIVE trimEnd(_)
trimEnd(s) ==
  IF Len(s) = 0 THEN <<>>
  ELSE IF s[Len(s)] \in WhiteSpace THEN trimEnd(SubSeq(s, 1, Len(s) - 1))
  ELSE s

\* String.prototype.trim()
trim(s) == trimEnd(trimStart(s))

\* the value of the decimal digit U+0030..U+0039
DigitVal(c) == c - 48

\* Number(s) for a string of decimal digits (Number("") is 0)
RECURSIVE Number(_)
Number(s) ==
  IF Len(s) = 0 THEN 0
  ELSE 10 * Number(SubSeq(s, 1, Len(s) - 1)) + DigitVal(s[Len(s)])

\* ------------------------------------------------------------------------
\* Numbers of the JavaScript runtime: IEEE 754 binary64, round to nearest even
\* ------------------------------------------------------------------------
\* A natural number of any size: its digits base 2^15, lowest first, no
\* leading zero digit (53-bit significands do not fit the integers of the
\* model checker).
Base == 32768

RECURSIVE BitLen(_)
BitLen(n) == IF n = 0 THEN 0 ELSE 1 + BitLen(n \div 2)

RECURSIVE BNorm(_)
BNorm(b) ==
  IF Len(b) > 0 /\ b[Len(b)] = 0 THEN BNorm(SubSeq(b, 1, Len(b) - 1)) ELSE b

RECURSIVE BOfInt(_)
BOfInt(n) == IF n = 0 THEN <<>> ELSE <<n % Base>> \o BOfInt(n \div Base)

RECURSIVE BToInt(_)
BToInt(b) == IF Len(b) = 0 THEN 0 ELSE b[1] + Base * BToInt(Tail(b))

BBitLen(b) == IF Len(b) = 0 THEN 0 ELSE 15 * (Len(b) - 1) + BitLen(b[Len(b)])

RECURSIVE BMulCarry(_, _, _)
BMulCarry(b, k, carry) ==
  IF Len(b) = 0 THEN (IF carry = 0 THEN <<>> ELSE <<carry>>)
  ELSE LET v == b[1] * k + carry
       IN <<v % Base>> \o BMulCarry(Tail(b), k, v \div Base)

\* b * k for 0 <= k <= 2^15
BMulSmall(b, k) == IF k = 0 THEN <<>> ELSE BMulCarry(b, k, 0)

RECURSIVE BDivRem(_, _)
\* <<digits of b \div d, b % d>> for 1 <= d <= 2^15
BDivRem(b, d) ==
  IF Len(b) = 0 THEN <<<<>>, 0>>
  ELSE LET hi == BDivRem(Tail(b), d)
           cur == hi[2] * Base + b[1]
       IN <<<<cur \div d>> \o hi[1], cur % d>>

\* b * 2^s
BShl(b, s) ==
  IF Len(b) = 0 THEN <<>>
  ELSE BMulSmall([i \in 1..(s \div 15) |-> 0] \o b, 2^(s % 15))

\* b \div 2^t
BShr(b, t) ==
  IF t \div 15 >= Len(b) THEN <<>>
  ELSE BNorm(BDivRem(SubSeq(b, (t \div 15) + 1, Len(b)), 2^(t % 15))[1])

RECURSIVE BAddCarry(_, _, _)
BAddCarry(a, b, carry) ==
  IF Len(a) = 0 /\ Len(b) = 0 THEN (IF carry = 0 THEN <<>> ELSE <<carry>>)
  ELSE LET v == (IF Len(a) = 0 THEN 0 ELSE a[1]) + (IF Len(b) = 0 THEN 0 ELSE b[1]) + carry
       IN <<v % Base>> \o BAddCarry(IF Len(a) = 0 THEN a ELSE Tail(a),
                                    IF Len(b) = 0 THEN b ELSE Tail(b), v \div Base)

BAdd(a, b) == BAddCarry(a, b, 0)

RECURSIVE BSubBorrow(_, _, _)
BSubBorrow(a, b, borrow) ==
  IF Len(a) = 0 THEN <<>>
  ELSE LET v == a[1] - (IF Len(b) = 0 THEN 0 ELSE b[1]) - borrow
       IN <<IF v < 0 THEN v + Base ELSE v>>
            \o BSubBorrow(Tail(a), IF Len(b) = 0 THEN b ELSE Tail(b), IF v < 0 THEN 1 ELSE 0)

\* a - b for a >= b
BSub(a, b) == BNorm(BSubBorrow(a, b, 0))

RECURSIVE BLess(_, _)
BLess(a, b) ==
  IF Len(a) # Len(b) THEN Len(a) < Len(b)
  ELSE IF Len(a) = 0 THEN FALSE
  ELSE IF a[Len(a)] # b[Len(b)] THEN a[Len(a)] < b[Len(b)]
  ELSE BLess(SubSeq(a, 1, Len(a) - 1), SubSeq(b, 1, Len(b) - 1))

\* A double: sign * mant * 2^exp with mant of exactly 53 bits, or mant <<>>
\* for the zero of that sign (no value the code computes here is subnormal,
\* infinite or NaN).
Double(sign, mant, exp) == [sign |-> sign, mant |-> mant, exp |-> exp]

\* the double nearest to sign * (p / d) * 2^x, ties to the even significand
RoundToDouble(sign, p, d, x) ==
  IF Len(p) = 0 THEN Double(sign, <<>>, 0)
  ELSE LET need == 55 + BitLen(d) - BBitLen(p)
           s == IF need > 0 THEN need ELSE 0
           qr == BDivRem(BShl(p, s), d)
           q == BNorm(qr[1])
           t == BBitLen(q) - 53
           withRoundBit == BShr(q, t - 1)
           kept == BShr(withRoundBit, 1)
           roundBit == withRoundBit[1] % 2 = 1
           sticky == qr[2] # 0 \/ BShl(withRoundBit, t - 1) # q
           up == roundBit /\ (sticky \/ kept[1] % 2 = 1)
           m == IF up THEN BAdd(kept, <<1>>) ELSE kept
       IN IF BBitLen(m) = 54 THEN Double(sign, BShr(m, 1), x - s + t + 1)
          ELSE Double(sign, m, x - s + t)

Abs(x) == IF x < 0 THEN 0 - x ELSE x

\* the Number value of an integer
ToDouble(i) == RoundToDouble(IF i < 0 THEN 0 - 1 ELSE 1, BOfInt(Abs(i)), 1, 0)

\* a / d for a double a and an integer 1 <= d <= 2^15
DoubleDiv(a, d) == RoundToDouble(a.sign, a.mant, d, a.exp)

\* a * k for a double a and an integer -2^15 <= k <= 2^15
DoubleMul(a, k) ==
  RoundToDouble(IF k < 0 THEN 0 - a.sign ELSE a.sign, BMulSmall(a.mant, Abs(k)), 1, a.exp)

\* a - n for a double a and an integer n
DoubleSub(a, n) ==
  LET f == IF a.exp < 0 THEN 0 - a.exp ELSE 0
      x == BShl(a.mant, a.exp + f)
      y == BShl(BOfInt(Abs(n)), f)
      signOfMinusN == IF n < 0 THEN 1 ELSE 0 - 1
  IN IF a.sign = signOfMinusN THEN RoundToDouble(a.sign, BAdd(x, y), 1, 0 - f)
     ELSE IF BLess(y, x) THEN RoundToDouble(a.sign, BSub(x, y), 1, 0 - f)
     ELSE IF BLess(x, y) THEN RoundToDouble(signOfMinusN, BSub(y, x), 1, 0 - f)
     ELSE Double(1, <<>>, 0)

\* Math.floor of a double whose floor fits an integer of the model checker
Floor(a) ==
  IF Len(a.mant) = 0 THEN 0
  ELSE IF a.exp >= 0 THEN a.sign * BToInt(BShl(a.mant, a.exp))
  ELSE LET q == BShr(a.mant, 0 - a.exp)
           whole == BShl(q, 0 - a.exp) = a.mant
       IN IF a.sign = 1 THEN BToInt(q)
          ELSE 0 - BToInt(q) - (IF whole THEN 0 ELSE 1)

\* ------------------------------------------------------------------------
\* ReaderUtil.js (not part of the sources at hand)
\* ------------------------------------------------------------------------
\* the verdict of a line: its status pattern, or the previous status
lineToStatus(line, prev) == IF line.sig = NoMatch THEN prev ELSE line.sig

\* lineContains(line, RIP_PROGRESS_CONSTANTS.ENCODE_STARTED)
lineContainsEncodeStarted(line) == line.started

getEncodeName(line) == line.name

\* "HH:MM:SS" resolved against the reference date, in ms since its midnight
getDateFromTime(t) ==
  ((Number(slice(t, 0, 2)) * 60 + Number(slice(t, 3, 5))) * 60
     + Number(slice(t, 6, 8))) * 1000

Pad2(n) == IF n < 10 THEN "0" \o ToString(n) ELSE ToString(n)

\* seconds (a double) -> "HH:MM:SS" of the whole seconds; a negative duration
\* keeps its sign
secondsToFormattedTime(q) ==
  LET secs == Floor(q)
      a == IF secs < 0 THEN 0 - secs ELSE secs
      body == Pad2(a \div 3600) \o ":" \o Pad2((a % 3600) \div 60) \o ":" \o Pad2(a % 60)
  IN IF secs < 0 THEN "-" \o body ELSE body

\* ------------------------------------------------------------------------
\* The log lines the line source can deliver
\* ------------------------------------------------------------------------
Ln(text, sig, started, title, chapter, name) ==
  [text |-> text, sig |-> sig, started |-> started,
   matchTitle |-> title, matchChapter |-> chapter, name |-> name]

L_noise     == Ln(UTF16("x264 [info]: profile High"), NoMatch, FALSE, FALSE, FALSE, "")
L_scan      == Ln(UTF16("[00:00:00] scan: scanning title 1"), SCANNING, FALSE, FALSE, FALSE, "")
L_scanDone  == Ln(UTF16("[00:00:30] scan: title 1 has chapters  7"), SCAN_COMPLETE, FALSE, TRUE, FALSE, "")
L_start1    == Ln(UTF16("[00:01:00] Starting Task: Snatched"), RIPPING, TRUE, FALSE, FALSE, "Snatched")
L_start2    == Ln(UTF16("[00:02:00] Starting Task: Chuck"), RIPPING, TRUE, FALSE, TRUE, "Chuck")
L_rip       == Ln(UTF16("[00:02:30] job configuration:"), RIPPING, FALSE, FALSE, FALSE, "")
L_sub       == Ln(UTF16("[00:02:40] subtitle scan pass"), RIPPING_SUB_SCAN, FALSE, FALSE, FALSE, "")
L_enc       == Ln(UTF16("[00:02:50] encoding pass"), RIPPING_ENCODING, FALSE, FALSE, FALSE, "")
L_done      == Ln(UTF16("[00:08:00] Finished work"), QUEUE_COMPLETE, FALSE, FALSE, FALSE, "")
L_title5    == Ln(UTF16("[00:02:55] chapters: 1 to") \o <<160, 53>>, NoMatch, FALSE, TRUE, FALSE, "")
L_ch3       == Ln(UTF16("[00:03:00] chapter done"), NoMatch, FALSE, FALSE, TRUE, "")
L_ch4       == Ln(UTF16("[00:04:00] chapter done"), NoMatch, FALSE, FALSE, TRUE, "")
L_both      == Ln(UTF16("[00:05:00] chapter done of 12"), NoMatch, FALSE, TRUE, TRUE, "")

Lines ==
  {L_noise, L_scan, L_scanDone, L_start1, L_start2, L_rip, L_sub,
   L_enc, L_done, L_title5, L_ch3, L_ch4, L_both}

\* the lines of two overlapping requests
ConcLines == {L_scan, L_start1, L_enc, L_done, L_ch3}

\* the lines of two requests issued one after the other
SeqLines == {L_scan, L_start1, L_enc, L_done, L_ch3, L_ch4, L_title5}

\* the values `new Date()` and the injected reference time can take (ms of day)
ClockTimes == {getDateFromTime(UTF16("00:05:00")) + 500}
MockTimes == {getDateFromTime(UTF16("00:07:00"))}

AllReqs == {1, 2}

VARIABLES
  heap,                   \* the status objects allocated so far
  this_status,            \* this.status: index into heap (0 before the first request)
  testSeam_currentTime,   \* <<>> when not injected, else <<ms of day>>
  osClock,                \* what `new Date()` yields
  log,                    \* per request: the lines its 'line' handler has received
  pc,                     \* per request: "new", "reading", "errored", "closed",
                          \*   "closed_after_error"
  promise,                \* per request: "none", "pending", "resolved", "rejected"
  result                  \* per request: heap index the promise resolved with (0: none)

vars == <<heap, this_status, testSeam_currentTime, osClock, log, pc, promise, result>>

\* ------------------------------------------------------------------------
\* LogReader.js
\* ------------------------------------------------------------------------
\* `{}`
EmptyObject ==
  [currentEncode |-> Undefined, startTime |-> Undefined, endTime |-> Undefined,
   statusText |-> Undefined, numChapters |-> Undefined, etaEstimators |-> Undefined,
   eta |-> Undefined, status |-> Undefined]

\* clearStats that forgets currentEncode
clearStats_keepCurrentEncode(st) ==
  [st EXCEPT !.startTime = <<>>,
             !.endTime = <<>>,
             !.statusText = QUEUE_COMPLETE,
             !.numChapters = -1,
             !.etaEstimators = <<>>,
             !.eta = ""]

clearStats(st) ==
  [st EXCEPT !.currentEncode = "",
             !.startTime = <<>>,
             !.endTime = <<>>,
             !.statusText = QUEUE_COMPLETE,
             !.numChapters = -1,
             !.etaEstimators = <<>>,
             !.eta = ""]

\* addLineIfIsIndicator that tests the chapter-progress pattern first
addLineIfIsIndicator_chapterFirst(st, line) ==
  IF line.matchChapter
    THEN [st EXCEPT !.etaEstimators = Append(@, line)]
  ELSE IF line.matchTitle
    THEN [st EXCEPT !.numChapters = Number(trim(sliceLast2(line.text)))]
  ELSE st

addLineIfIsIndicator(st, line) ==
  IF line.matchTitle
    THEN [st EXCEPT !.numChapters = Number(trim(sliceLast2(line.text)))]
  ELSE IF line.matchChapter
    THEN [st EXCEPT !.etaEstimators = Append(@, line)]
  ELSE st

\* resolveStatus without the bail-out of a RIPPING line that is not the marker
resolveStatus_noBail(st, line) ==
  LET lineStatus == lineToStatus(line, st.statusText)
      acted ==
        CASE lineStatus \in {SCANNING, SCAN_COMPLETE} -> clearStats(st)
          [] lineStatus = RIPPING ->
               [clearStats(st) EXCEPT !.startTime = slice(line.text, 1, 9),
                                      !.currentEncode = getEncodeName(line)]
          [] lineStatus \in {RIPPING_SUB_SCAN, RIPPING_ENCODING} -> [st EXCEPT !.eta = "~"]
          [] lineStatus = QUEUE_COMPLETE -> [st EXCEPT !.endTime = slice(line.text, 1, 9)]
          [] OTHER -> st
  IN [acted EXCEPT !.statusText = lineStatus]

\* resolveStatus that also drops the estimator lines when a sub-scan / encoding pass begins
resolveStatus_passClears(st, line) ==
  LET lineStatus == lineToStatus(line, st.statusText)
      acted ==
        CASE lineStatus \in {SCANNING, SCAN_COMPLETE} -> clearStats(st)
          [] lineStatus = RIPPING ->
               IF ~lineContainsEncodeStarted(line) THEN st
               ELSE [clearStats(st) EXCEPT !.startTime = slice(line.text, 1, 9),
                                           !.currentEncode = getEncodeName(line)]
          [] lineStatus \in {RIPPING_SUB_SCAN, RIPPING_ENCODING} ->
               [st EXCEPT !.eta = "~", !.etaEstimators = <<>>]
          [] lineStatus = QUEUE_COMPLETE -> [st EXCEPT !.endTime = slice(line.text, 1, 9)]
          [] OTHER -> st
  IN [acted EXCEPT !.statusText = lineStatus]

resolveStatus(st, line) ==
  LET lineStatus == lineToStatus(line, st.statusText)
      acted ==
        CASE lineStatus \in {SCANNING, SCAN_COMPLETE} -> clearStats(st)
          [] lineStatus = RIPPING ->
               IF ~lineContainsEncodeStarted(line) THEN st
               ELSE [clearStats(st) EXCEPT !.startTime = slice(line.text, 1, 9),
                                           !.currentEncode = getEncodeName(line)]
          [] lineStatus \in {RIPPING_SUB_SCAN, RIPPING_ENCODING} -> [st EXCEPT !.eta = "~"]
          [] lineStatus = QUEUE_COMPLETE -> [st EXCEPT !.endTime = slice(line.text, 1, 9)]
          [] OTHER -> st
  IN [acted EXCEPT !.statusText = lineStatus]

\* the 'line' handler with its two calls in the other order
foldLine_statusFirst(st, line) == addLineIfIsIndicator(resolveStatus(st, line), line)

\* the 'line' handler of getHBStatusItems
foldLine(st, line) == resolveStatus(addLineIfIsIndicator(st, line), line)

RECURSIVE SumDiffs(_, _)
\* the loops of calcEta over dateDiffs: sum of etaDates[i] - etaDates[i-1], i >= from
SumDiffs(etaDates, from) ==
  IF from > Len(etaDates) THEN 0
  ELSE (etaDates[from] - etaDates[from - 1]) + SumDiffs(etaDates, from + 1)

\* timeInSecs that multiplies by all the chapters instead of the remaining ones
timeInSecs_allChapters(st, currentDate) ==
  LET etaDates == [i \in 1..Len(st.etaEstimators) |->
                     getDateFromTime(slice(st.etaEstimators[i].text, 1, 9))]
      nDiffs == Len(etaDates) - 1
      sum == SumDiffs(etaDates, 2)
      avg == DoubleDiv(ToDouble(sum), nDiffs)
      msSinceCheckin == currentDate - etaDates[Len(etaDates)]
  IN DoubleDiv(DoubleSub(DoubleMul(avg, st.numChapters), msSinceCheckin), 1000)

\* the value calcEta hands to the duration formatter, computed in doubles as
\* the code computes it
timeInSecs(st, currentDate) ==
  LET etaDates == [i \in 1..Len(st.etaEstimators) |->
                     getDateFromTime(slice(st.etaEstimators[i].text, 1, 9))]
      nDiffs == Len(etaDates) - 1
      sum == SumDiffs(etaDates, 2)
      numRemainingChapters == st.numChapters - Len(st.etaEstimators)
      avg == DoubleDiv(ToDouble(sum), nDiffs)
      msSinceCheckin == currentDate - etaDates[Len(etaDates)]
  IN DoubleDiv(DoubleSub(DoubleMul(avg, numRemainingChapters), msSinceCheckin), 1000)

\* calcEta that tests the phase before the completion
calcEta_phaseFirst(st, mocked, clock) ==
  IF st.statusText # RIPPING_ENCODING /\ st.statusText # RIPPING_SUB_SCAN THEN ""
  ELSE IF st.statusText = QUEUE_COMPLETE THEN "00:00:00"
  ELSE IF Len(st.etaEstimators) < 2 THEN "~"
  ELSE IF Len(st.etaEstimators) - 1 = 0 THEN "00:00:00"
  ELSE LET currentDate == IF mocked # <<>> THEN mocked[1] ELSE clock
       IN secondsToFormattedTime(timeInSecs(st, currentDate))

\* calcEta that extrapolates from a single estimator line on
calcEta_oneSample(st, mocked, clock) ==
  IF st.statusText = QUEUE_COMPLETE THEN "00:00:00"
  ELSE IF st.statusText # RIPPING_ENCODING /\ st.statusText # RIPPING_SUB_SCAN THEN ""
  ELSE IF Len(st.etaEstimators) < 1 THEN "~"
  ELSE IF Len(st.etaEstimators) - 1 = 0 THEN "00:00:00"
  ELSE LET currentDate == IF mocked # <<>> THEN mocked[1] ELSE clock
       IN secondsToFormattedTime(timeInSecs(st, currentDate))

calcEta(st, mocked, clock) ==
  IF st.statusText = QUEUE_COMPLETE THEN "00:00:00"
  ELSE IF st.statusText # RIPPING_ENCODING /\ st.statusText # RIPPING_SUB_SCAN THEN ""
  ELSE IF Len(st.etaEstimators) < 2 THEN "~"
  ELSE IF Len(st.etaEstimators) - 1 = 0 THEN "00:00:00"
  ELSE LET currentDate == IF mocked # <<>> THEN mocked[1] ELSE clock
       IN secondsToFormattedTime(timeInSecs(st, currentDate))

\* the 'close' handler without the status label
closeRecord_noLabel(st, mocked, clock) ==
  [st EXCEPT !.eta = calcEta(st, mocked, clock)]

\* the 'close' handler keeping an eta the replay has written
closeRecord_keepEta(st, mocked, clock) ==
  LET labelled == [st EXCEPT !.status = REVERSE_STATUS_LOOKUP(st.statusText)]
  IN [labelled EXCEPT !.eta = IF @ # "" THEN @ ELSE calcEta(labelled, mocked, clock)]

\* the 'close' handler of getHBStatusItems, up to the call of resolve
closeRecord(st, mocked, clock) ==
  LET labelled == [st EXCEPT !.status = REVERSE_STATUS_LOOKUP(st.statusText)]
  IN [labelled EXCEPT !.eta = calcEta(labelled, mocked, clock)]

\* ------------------------------------------------------------------------
\* The requests
\* ------------------------------------------------------------------------
InitWith(mockedTimes) ==
  /\ heap = <<>>
  /\ this_status = 0
  /\ testSeam_currentTime \in mockedTimes
  /\ osClock \in ClockTimes
  /\ log = [r \in AllReqs |-> <<>>]
  /\ pc = [r \in AllReqs |-> "new"]
  /\ promise = [r \in AllReqs |-> "none"]
  /\ result = [r \in AllReqs |-> 0]

Init == InitWith({<<>>} \cup {<<t>> : t \in MockTimes})

\* getHBStatusItems that resets the record of the previous request in place
getHBStatusItems_reuse(r) ==
  /\ pc[r] = "new"
  /\ heap' = IF this_status = 0 THEN Append(heap, clearStats(EmptyObject))
             ELSE [heap EXCEPT ![this_status] = clearStats(@)]
  /\ this_status' = IF this_status = 0 THEN Len(heap) + 1 ELSE this_status
  /\ pc' = [pc EXCEPT ![r] = "reading"]
  /\ promise' = [promise EXCEPT ![r] = "pending"]
  /\ UNCHANGED <<testSeam_currentTime, osClock, log, result>>

\* getHBStatusItems up to the registration of the handlers
getHBStatusItems(r) ==
  /\ pc[r] = "new"
  /\ heap' = Append(heap, clearStats(EmptyObject))
  /\ this_status' = Len(heap) + 1
  /\ pc' = [pc EXCEPT ![r] = "reading"]
  /\ promise' = [promise EXCEPT ![r] = "pending"]
  /\ UNCHANGED <<testSeam_currentTime, osClock, log, result>>

\* rl.on('line', ...)
OnLine(r, alphabet, maxLen) ==
  /\ pc[r] = "reading"
  /\ Len(log[r]) < maxLen
  /\ \E line \in alphabet :
       /\ heap' = [heap EXCEPT ![this_status] = foldLine(@, line)]
       /\ log' = [log EXCEPT ![r] = Append(@, line)]
  /\ UNCHANGED <<this_status, testSeam_currentTime, osClock, pc, promise, result>>

\* an 'error' event nobody rejects on
OnError_unhandled(r) ==
  /\ pc[r] = "reading"
  /\ pc' = [pc EXCEPT ![r] = "errored"]
  /\ UNCHANGED <<heap, this_status, testSeam_currentTime, osClock, log, promise, result>>

\* rl.on('error', reject)
OnError(r) ==
  /\ pc[r] = "reading"
  /\ pc' = [pc EXCEPT ![r] = "errored"]
  /\ promise' = [promise EXCEPT ![r] = IF @ = "pending" THEN "rejected" ELSE @]
  /\ UNCHANGED <<heap, this_status, testSeam_currentTime, osClock, log, result>>

\* rl.on('close', ...): at the end of the log, or when the interface closes after an error
OnClose(r) ==
  /\ pc[r] \in {"reading", "errored"}
  /\ heap' = [heap EXCEPT ![this_status] = closeRecord(@, testSeam_currentTime, osClock)]
  /\ pc' = [pc EXCEPT ![r] = IF @ = "errored" THEN "closed_after_error" ELSE "closed"]
  /\ promise' = [promise EXCEPT ![r] = IF @ = "pending" THEN "resolved" ELSE @]
  /\ result' = [result EXCEPT ![r] = IF promise[r] = "pending" THEN this_status ELSE @]
  /\ UNCHANGED <<this_status, testSeam_currentTime, osClock, log>>

\* one request on a fresh LogReader
Next ==
  \/ getHBStatusItems(1)
  \/ OnLine(1, Lines, MaxLen)
  \/ OnError(1)
  \/ OnClose(1)

Spec == Init /\ [][Next]_vars

\* two requests on the same LogReader, their callbacks interleaving
NextConc ==
  \E r \in AllReqs :
    \/ getHBStatusItems(r)
    \/ OnLine(r, ConcLines, MaxConcLen)
    \/ OnError(r)
    \/ OnClose(r)

SpecConc == InitWith({<<t>> : t \in MockTimes}) /\ [][NextConc]_vars

\* two requests on the same LogReader, each issued when no other is pending
NextSeq ==
  \E r \in AllReqs :
    \/ (\A q \in AllReqs \ {r} : promise[q] # "pending") /\ getHBStatusItems(r)
    \/ OnLine(r, SeqLines, MaxSeqLen)
    \/ OnError(r)
    \/ OnClose(r)

SpecSeq == InitWith({<<t>> : t \in MockTimes}) /\ [][NextSeq]_vars

\* ------------------------------------------------------------------------
\* Properties
\* ------------------------------------------------------------------------
\* the record this.status points at
Rec == heap[this_status]

\* the record the promise of request r resolved with, as the caller sees it
Returned(r) == heap[result[r]]

ScanPhases == {SCANNING, SCAN_COMPLETE}
RipPasses == {RIPPING_SUB_SCAN, RIPPING_ENCODING}

Last(q) == q[Len(q)]

RECURSIVE Replay(_)
\* the record after a solo replay of the given lines on a fresh record
Replay(lines) ==
  IF lines = <<>> THEN clearStats(EmptyObject)
  ELSE foldLine(Replay(SubSeq(lines, 1, Len(lines) - 1)), Last(lines))

\* the step of the 'line' handler of request 1, folding line l
FoldStep(l) == pc[1] = "reading" /\ log'[1] = Append(log[1], l)

Inert(l) == l.sig = NoMatch /\ ~l.matchTitle /\ ~l.matchChapter
Indicator(l) == l.matchTitle \/ l.matchChapter
\* the verdict of l resets the record
Resets(l, prev) ==
  LET v == lineToStatus(l, prev)
  IN v \in ScanPhases \/ (v = RIPPING /\ lineContainsEncodeStarted(l))

\* C1: a request whose replay ends with statusText QUEUE_COMPLETE returns
\* eta "00:00:00", whatever etaEstimators and numChapters hold.
C1_CompleteEtaZero ==
  (promise[1] = "resolved" /\ Returned(1).statusText = QUEUE_COMPLETE)
    => Returned(1).eta = "00:00:00"

C1_Witness ==
  /\ promise[1] = "resolved"
  /\ Returned(1).statusText = QUEUE_COMPLETE
  /\ Len(Returned(1).etaEstimators) >= 2
  /\ Returned(1).numChapters = 5

\* C2: whenever statusText is SCANNING or SCAN_COMPLETE, during the replay and
\* in the returned record, currentEncode, startTime, endTime and eta are empty,
\* numChapters is -1 and etaEstimators is empty.
C2_ScanPhaseIsBlank ==
  (this_status > 0 /\ Rec.statusText \in ScanPhases)
    => /\ Rec.currentEncode = ""
       /\ Rec.startTime = <<>>
       /\ Rec.endTime = <<>>
       /\ Rec.numChapters = -1
       /\ Rec.etaEstimators = <<>>
       /\ Rec.eta = ""

C2_Witness ==
  /\ promise[1] = "resolved"
  /\ Len(log[1]) >= 3
  /\ log[1][1] = L_start1
  /\ log[1][2] \in {L_ch3, L_title5}
  /\ Last(log[1]) = L_scanDone
  /\ Returned(1).statusText \in ScanPhases

\* C3: a request whose replay ends in RIPPING_SUB_SCAN or RIPPING_ENCODING with
\* fewer than two estimator lines returns eta "~", whatever numChapters is.
C3_FewSamplesTilde ==
  (promise[1] = "resolved" /\ Returned(1).statusText \in RipPasses
     /\ Len(Returned(1).etaEstimators) < 2)
    => Returned(1).eta = "~"

C3_Witness ==
  /\ promise[1] = "resolved"
  /\ Returned(1).statusText = RIPPING_ENCODING
  /\ Len(Returned(1).etaEstimators) = 1
  /\ Returned(1).numChapters = 12
  /\ Returned(1).eta = "~"

\* C4: folding a line that matches no status pattern and no indicator pattern
\* leaves every field of the record unchanged, whatever the current statusText.
C4_InertLineChangesNothing ==
  [][\A l \in Lines : (Inert(l) /\ FoldStep(l)) => heap'[this_status] = heap[this_status]]_vars

\* C5: overlapping requests are independent: each one resolves with the record
\* a solo replay of its own log produces.
C5_RequestsIndependent ==
  \A r \in AllReqs :
    promise[r] = "resolved"
      => Returned(r) = closeRecord(Replay(log[r]), testSeam_currentTime, osClock)

\* C6: once the line source has failed, after any number of folded lines, the
\* promise is rejected and has not been resolved with a record.
C6_FailureRejects ==
  pc[1] \in {"errored", "closed_after_error"}
    => (promise[1] = "rejected" /\ result[1] = 0)

C6_Witness ==
  /\ pc[1] = "closed_after_error"
  /\ Len(log[1]) >= 2
  /\ promise[1] = "rejected"

RECURSIVE SumOfGaps(_, _)
\* sum over i in 1..k of t[i+1] - t[i]
SumOfGaps(t, k) == IF k = 0 THEN 0 ELSE SumOfGaps(t, k - 1) + (t[k + 1] - t[k])

\* the reference time of the ETA
Now == IF testSeam_currentTime # <<>> THEN testSeam_currentTime[1] ELSE osClock

\* |a - num / den| <= 1 / 10^6 for a double a and integers num, 1 <= den <= 2^15
WithinMicrosecond(a, num, den) ==
  LET f == IF a.exp < 0 THEN 0 - a.exp ELSE 0
      x == BMulSmall(BShl(a.mant, a.exp + f), den)
      y == BShl(BOfInt(Abs(num)), f)
      sameSign == Len(x) = 0 \/ Len(y) = 0 \/ (a.sign = 1) = (num > 0)
      gap == IF ~sameSign THEN BAdd(x, y)
             ELSE IF BLess(x, y) THEN BSub(y, x) ELSE BSub(x, y)
  IN ~BLess(BShl(BOfInt(den), f), BMulSmall(BMulSmall(gap, 1000), 1000))

\* C7: with n >= 2 estimator lines at times t1..tn in a ripping pass, the
\* value handed to the duration formatter is ((sum of gaps / (n-1)) *
\* (numChapters - n) - (now - tn)) / 1000 evaluated as written in the numbers
\* of the language (within a microsecond of the exact quotient), negative or
\* not, and the eta is its formatted value; 2 samples one minute apart,
\* numChapters = 5 and now = tn + 3 minutes give 0 seconds and "00:00:00".
C7_EtaFormula ==
  (promise[1] = "resolved" /\ Returned(1).statusText \in RipPasses
     /\ Len(Returned(1).etaEstimators) >= 2)
    => LET e == Returned(1).etaEstimators
           n == Len(e)
           t == [i \in 1..n |-> getDateFromTime(slice(e[i].text, 1, 9))]
           total == SumOfGaps(t, n - 1)
           left == Returned(1).numChapters - n
           asWritten ==
             DoubleDiv(DoubleSub(DoubleMul(DoubleDiv(ToDouble(total), n - 1), left),
                                 Now - t[n]), 1000)
           handed == timeInSecs(Returned(1), Now)
       IN /\ handed = asWritten
          /\ WithinMicrosecond(handed, total * left - (Now - t[n]) * (n - 1), (n - 1) * 1000)
          /\ Returned(1).eta = secondsToFormattedTime(handed)
          /\ (n = 2 /\ t[2] - t[1] = 60000 /\ Returned(1).numChapters = 5
                /\ Now = t[2] + 180000)
               => (handed = ToDouble(0) /\ Returned(1).eta = "00:00:00")

C7_Witness ==
  /\ promise[1] = "resolved"
  /\ Returned(1).statusText = RIPPING_ENCODING
  /\ Returned(1).etaEstimators = <<L_ch3, L_ch4>>
  /\ Returned(1).numChapters = 5
  /\ Now = getDateFromTime(UTF16("00:07:00"))
  /\ Returned(1).eta = "00:00:00"

\* the verdict of the k-th line of the log of request 1 in a solo replay
Verdict(k) == Replay(SubSeq(log[1], 1, k)).statusText

\* C8: a log with an encode-start marker line, later a line on which the
\* verdict becomes QUEUE_COMPLETE, no reset after the marker and the verdict
\* staying QUEUE_COMPLETE to the end, returns the marker's name and start
\* time, the time field of the completing line as endTime, statusText
\* QUEUE_COMPLETE and eta "00:00:00".
C8_CompletedRipRecord ==
  promise[1] = "resolved" =>
    \A i \in 1..Len(log[1]) : \A j \in (i + 1)..Len(log[1]) :
      ( /\ lineContainsEncodeStarted(log[1][i]) /\ Verdict(i) = RIPPING
        /\ Verdict(j) = QUEUE_COMPLETE /\ Verdict(j - 1) # QUEUE_COMPLETE
        /\ \A k \in (i + 1)..Len(log[1]) : ~Resets(log[1][k], Verdict(k - 1))
        /\ \A k \in j..Len(log[1]) : Verdict(k) = QUEUE_COMPLETE )
      => /\ Returned(1).currentEncode = getEncodeName(log[1][i])
         /\ Returned(1).startTime = slice(log[1][i].text, 1, 9)
         /\ Returned(1).endTime = slice(log[1][j].text, 1, 9)
         /\ Returned(1).statusText = QUEUE_COMPLETE
         /\ Returned(1).eta = "00:00:00"

IsPrefixPlusAtMostOne(old, new) ==
  /\ Len(new) \in {Len(old), Len(old) + 1}
  /\ SubSeq(new, 1, Len(old)) = old

\* C9: a line fold either empties etaEstimators, and then the verdict of the
\* line is SCANNING, SCAN_COMPLETE or RIPPING on the encode-start marker, or
\* keeps the previous lines as a prefix with at most one line appended.
C9_EstimatorsGrowOrReset ==
  [][\A l \in Lines : FoldStep(l) =>
        \/ /\ heap'[this_status].etaEstimators = <<>>
           /\ Resets(l, Rec.statusText)
        \/ IsPrefixPlusAtMostOne(Rec.etaEstimators, heap'[this_status].etaEstimators)]_vars

C9_Witness ==
  /\ pc[1] = "reading"
  /\ Len(log[1]) = 4
  /\ log[1][2] = L_ch3
  /\ log[1][3] = L_ch4
  /\ Last(log[1]) = L_start2
  /\ Rec.etaEstimators = <<>>
  /\ Rec.currentEncode = "Chuck"

\* C10 as stated: for every line, the indicator check before the status fold
\* and the indicator check after it produce the same record.
C10_OrderIrrelevant ==
  [][\A l \in Lines : FoldStep(l) => heap'[this_status] = foldLine_statusFirst(Rec, l)]_vars

\* C10 amended: the two orders produce the same record for every line that
\* matches no indicator pattern or whose verdict does not reset the record.
C10_OrderIrrelevantUnlessReset ==
  [][\A l \in Lines :
        (FoldStep(l) /\ (~Indicator(l) \/ ~Resets(l, Rec.statusText)))
          => heap'[this_status] = foldLine_statusFirst(Rec, l)]_vars

C10_Witness ==
  /\ pc[1] = "reading"
  /\ Len(log[1]) >= 2
  /\ Last(log[1]) = L_ch4
  /\ Rec.statusText = RIPPING_ENCODING
  /\ Last(Rec.etaEstimators) = L_ch4
  /\ Rec.eta = "~"

\* the verdict of the k-th line of the log of request 1 (QUEUE_COMPLETE before it)
VerdictAt(k) == IF k = 0 THEN QUEUE_COMPLETE ELSE Verdict(k)

\* C11: a line whose verdict is RIPPING and which is not the encode-start
\* marker sets statusText to RIPPING and preserves currentEncode, startTime,
\* endTime, eta, the estimator lines accumulated so far and, unless the line
\* is itself a chapter-count line, numChapters.
C11_PlainRippingLineKeepsRecord ==
  [][\A l \in Lines :
        (FoldStep(l) /\ lineToStatus(l, Rec.statusText) = RIPPING
           /\ ~lineContainsEncodeStarted(l))
          => /\ heap'[this_status].statusText = RIPPING
             /\ heap'[this_status].currentEncode = Rec.currentEncode
             /\ heap'[this_status].startTime = Rec.startTime
             /\ heap'[this_status].endTime = Rec.endTime
             /\ heap'[this_status].eta = Rec.eta
             /\ IsPrefixPlusAtMostOne(Rec.etaEstimators, heap'[this_status].etaEstimators)
             /\ (~l.matchTitle => heap'[this_status].numChapters = Rec.numChapters)]_vars

C11_Witness ==
  /\ pc[1] = "reading"
  /\ Len(log[1]) = 4
  /\ Last(log[1]) = L_rip
  /\ Rec.statusText = RIPPING
  /\ Rec.currentEncode = "Snatched"
  /\ Rec.eta = "~"
  /\ Rec.etaEstimators = <<L_ch3>>

\* the record right after a reset line of verdict v has been folded
AfterReset(l, v) ==
  [currentEncode |-> IF v = RIPPING THEN getEncodeName(l) ELSE "",
   startTime |-> IF v = RIPPING THEN slice(l.text, 1, 9) ELSE <<>>,
   endTime |-> <<>>,
   statusText |-> v,
   numChapters |-> -1,
   etaEstimators |-> <<>>,
   eta |-> "",
   status |-> Undefined]

RECURSIVE ReplayFrom(_, _)
\* the record after folding the given lines into the record st
ReplayFrom(st, lines) ==
  IF lines = <<>> THEN st
  ELSE foldLine(ReplayFrom(st, SubSeq(lines, 1, Len(lines) - 1)), Last(lines))

\* C12: after a reset line (scan verdict, or RIPPING on the encode-start
\* marker) the record is the defaults with statusText the verdict and, for the
\* marker, startTime and currentEncode of that line; the returned record
\* depends only on that line, its verdict and the lines after it.
C12_ResetForgetsThePast ==
  /\ (pc[1] = "reading" /\ Len(log[1]) > 0
        /\ Resets(Last(log[1]), VerdictAt(Len(log[1]) - 1)))
       => Rec = AfterReset(Last(log[1]), Verdict(Len(log[1])))
  /\ promise[1] = "resolved"
       => \A k \in 1..Len(log[1]) :
            Resets(log[1][k], VerdictAt(k - 1)) =>
              LET fresh == AfterReset(log[1][k], Verdict(k))
                  rest == SubSeq(log[1], k + 1, Len(log[1]))
              IN Returned(1) =
                   closeRecord(ReplayFrom(fresh, rest), testSeam_currentTime, osClock)

C12_Witness ==
  /\ promise[1] = "resolved"
  /\ Len(log[1]) = 4
  /\ log[1][1] = L_done
  /\ log[1][2] = L_title5
  /\ log[1][3] = L_start2
  /\ log[1][4] = L_ch4
  /\ Returned(1).currentEncode = "Chuck"
  /\ Returned(1).endTime = <<>>
  /\ Returned(1).numChapters = -1
  /\ Returned(1).etaEstimators = <<L_ch4>>

\* the index of the last reset line of the log of request 1 (0: none)
LastReset ==
  LET R == {k \in 1..Len(log[1]) : Resets(log[1][k], VerdictAt(k - 1))}
  IN IF R = {} THEN 0 ELSE CHOOSE k \in R : \A j \in R : j <= k

RECURSIVE ChapterLinesFrom(_)
\* the lines of the log of request 1 from index k on that match the chapter-progress pattern
ChapterLinesFrom(k) ==
  IF k > Len(log[1]) THEN <<>>
  ELSE (IF log[1][k].matchChapter THEN <<log[1][k]>> ELSE <<>>) \o ChapterLinesFrom(k + 1)

\* the count of the last chapter-count line after the last reset line, or -1
ChapterCountSinceReset ==
  LET T == {k \in (LastReset + 1)..Len(log[1]) : log[1][k].matchTitle}
  IN IF T = {} THEN -1
     ELSE Number(trim(sliceLast2(log[1][CHOOSE k \in T : \A j \in T : j <= k].text)))

\* C13: at stream close etaEstimators holds, in log order, every line after
\* the last reset line that matched the chapter-progress pattern (a line that
\* matches both indicator patterns included), and numChapters is the count of
\* the last chapter-count line after that reset, or -1.
C13_IndicatorsSinceReset ==
  promise[1] = "resolved"
    => /\ Returned(1).etaEstimators = ChapterLinesFrom(LastReset + 1)
       /\ Returned(1).numChapters = ChapterCountSinceReset

\* C14: endTime is non-empty only for a completed job: it is empty whenever
\* statusText is RIPPING, RIPPING_SUB_SCAN or RIPPING_ENCODING, and whenever
\* currentEncode is empty.
C14_EndTimeOnlyWhenCompleted ==
  this_status > 0 =>
    /\ Rec.statusText \in {RIPPING, RIPPING_SUB_SCAN, RIPPING_ENCODING} => Rec.endTime = <<>>
    /\ Rec.currentEncode = "" => Rec.endTime = <<>>

\* the record a solo replay of the given lines returns
Snapshot(lines) ==
  LET st == Replay(lines)
  IN [st EXCEPT !.status = REVERSE_STATUS_LOOKUP(st.statusText),
                !.eta = calcEta(st, testSeam_currentTime, osClock)]

\* C15: for a log that ends without error the lines are folded one at a time
\* in order while the stream is open, the ETA is computed at the close only,
\* nothing is folded or changed after it, and the request resolves once with
\* the record as it stood after the last line plus the eta and the label.
C15_ReplayThenEtaThenResolve ==
  /\ [](pc[1] = "closed"
          => /\ promise[1] = "resolved"
             /\ result[1] = this_status
             /\ Returned(1) = Snapshot(log[1]))
  /\ [](pc[1] = "reading" => (Rec = Replay(log[1]) /\ promise[1] = "pending"))
  /\ [][/\ log'[1] # log[1]
           => /\ pc[1] = "reading" /\ pc'[1] = "reading"
              /\ \E l \in Lines : log'[1] = Append(log[1], l)
        /\ pc[1] = "closed"
           => (heap' = heap /\ log' = log /\ promise' = promise /\ result' = result)
        /\ promise[1] = "resolved"
           => (promise'[1] = "resolved" /\ result'[1] = result[1])]_vars

C15_Witness ==
  /\ pc[1] = "closed"
  /\ promise[1] = "resolved"
  /\ log[1] = <<L_start1, L_sub, L_ch3, L_ch4>>
  /\ Returned(1).status = REVERSE_STATUS_LOOKUP(RIPPING_SUB_SCAN)
  /\ Returned(1).currentEncode = "Snatched"
  /\ Returned(1).etaEstimators = <<L_ch3, L_ch4>>

\* C16: a request whose replay ends with statusText RIPPING returns eta "",
\* also when a sub-scan / encoding line had written "~" and two estimator
\* lines are accumulated.
C16_PlainRippingEtaEmpty ==
  (promise[1] = "resolved" /\ Returned(1).statusText = RIPPING) => Returned(1).eta = ""

C16_Witness ==
  /\ promise[1] = "resolved"
  /\ Returned(1).statusText = RIPPING
  /\ Replay(log[1]).eta = "~"
  /\ Len(Returned(1).etaEstimators) >= 2
  /\ Returned(1).eta = ""

\* C17: a request over a log in which no line matches a status or indicator
\* pattern (the empty log included) returns the idle record.
C17_IdleRecord ==
  (promise[1] = "resolved" /\ \A k \in 1..Len(log[1]) : Inert(log[1][k]))
    => /\ Returned(1).statusText = QUEUE_COMPLETE
       /\ Returned(1).currentEncode = ""
       /\ Returned(1).startTime = <<>>
       /\ Returned(1).endTime = <<>>
       /\ Returned(1).numChapters = -1
       /\ Returned(1).etaEstimators = <<>>
       /\ Returned(1).eta = "00:00:00"

\* C18: requests issued one after the other on the same LogReader each return
\* the record a fresh LogReader returns for the same log and reference time,
\* in a record object of their own that no later request modifies.
C18_SequentialRequestsFresh ==
  \A r \in AllReqs :
    promise[r] = "resolved"
      => /\ Returned(r) = Snapshot(log[r])
         /\ \A q \in AllReqs \ {r} : result[q] # result[r]

C18_Witness ==
  /\ promise[1] = "resolved"
  /\ promise[2] = "resolved"
  /\ log[1] = <<L_start1, L_done>>
  /\ log[2] = <<L_enc, L_ch3>>
  /\ Returned(1).endTime = UTF16("00:08:00")
  /\ Returned(2).endTime = <<>>

\* C19 as stated: whenever the extrapolation is performed numChapters is
\* known and at least the number of estimator lines.
C19_RemainingNeverNegative ==
  (promise[1] = "resolved" /\ Returned(1).statusText \in RipPasses
     /\ Len(Returned(1).etaEstimators) >= 2)
    => /\ Returned(1).numChapters # -1
       /\ Returned(1).numChapters >= Len(Returned(1).etaEstimators)

\* C19 amended: whenever the extrapolation is performed numChapters is the
\* count of the last chapter-count line after the last reset line, or -1 when
\* there is none; it is not compared with the number of estimator lines.
C19_ChaptersAsLastCounted ==
  (promise[1] = "resolved" /\ Returned(1).statusText \in RipPasses
     /\ Len(Returned(1).etaEstimators) >= 2)
    => /\ Returned(1).numChapters = ChapterCountSinceReset
       /\ Returned(1).numChapters >= -1

C19_Witness ==
  /\ promise[1] = "resolved"
  /\ Returned(1).statusText = RIPPING_ENCODING
  /\ Returned(1).etaEstimators = <<L_ch3, L_ch4>>
  /\ Returned(1).numChapters = -1
  /\ Returned(1).eta =
       secondsToFormattedTime(
         DoubleDiv(ToDouble(0 - 3 * 60000 - (Now - getDateFromTime(UTF16("00:04:00")))), 1000))

====
